---- MODULE Spec2Model ----
(***************************************************************************)
(* Model of demos/02_sdl3_play_pcm/sdl3_play_pcm.cc: the double-buffered, *)
(* callback-driven PCM player.  Two threads share the two chunks:          *)
(*   - the producer, PlayPcmAudio on the main thread, and                  *)
(*   - the consumer, AudioStreamCB, called by the SDL audio thread.        *)
(* Each thread is cut into steps at the points where it touches shared     *)
(* memory or a synchronisation object, so every interleaving the two       *)
(* threads can show is a behaviour of the model.                           *)
(*                                                                         *)
(* Bytes are modelled by their origin: the byte at offset i of the PCM     *)
(* file is the value i, a zero byte written by memset or by value-         *)
(* initialisation is the value -1.  The program never looks at a byte's    *)
(* value, so this loses nothing and makes every byte of the input          *)
(* distinguishable.  A byte array is kept run-length encoded: a sequence   *)
(* of runs [v, n], n >= 1, where v = -1 stands for n zero bytes and        *)
(* v >= 0 for the n file bytes v, v+1, ..., v+n-1.                         *)
(***************************************************************************)
EXTENDS Integers, Sequences, FiniteSets, TLC

\* ------------------------------------------------------------ constants
\* sdl3_play_pcm.cc:19  static constexpr int kPcmBufferSize = 2 * 1920;
kPcmBufferSize == 2 * 1920

\* ------------------------------------------------------------ bounds
\* The input files have 0..MaxChunks full chunks, with or without a short tail.
MaxChunks == 3
\* Length in bytes of the short last read of a file that has one.
ShortTail == 2500
\* The audio thread requests k * (kPcmBufferSize \div ReqDivs) bytes, k in 0..ReqDivs.
ReqDivs == 2

FileSizes ==
    {k * kPcmBufferSize : k \in 0..MaxChunks}
        \cup {k * kPcmBufferSize + ShortTail : k \in 0..(MaxChunks - 1)}

Amounts == {k * (kPcmBufferSize \div ReqDivs) : k \in 0..ReqDivs}

PosAmounts == Amounts \ {0}

\* ------------------------------------------------------------ byte arrays
Min(a, b) == IF a <= b THEN a ELSE b

ZeroByte == 0 - 1

\* n zero bytes
Zeros(n) == IF n = 0 THEN <<>> ELSE <<[v |-> ZeroByte, n |-> n]>>

\* the n bytes of the input file that start at offset off
FileBytes(off, n) == IF n = 0 THEN <<>> ELSE <<[v |-> off, n |-> n]>>

RECURSIVE RLen(_)
RLen(a) == IF a = <<>> THEN 0 ELSE Head(a).n + RLen(Tail(a))

RECURSIVE RTake(_, _)
\* the first k bytes of a
RTake(a, k) ==
    IF k = 0 \/ a = <<>> THEN <<>>
    ELSE IF Head(a).n <= k THEN <<Head(a)>> \o RTake(Tail(a), k - Head(a).n)
    ELSE <<[v |-> Head(a).v, n |-> k]>>

RECURSIVE RDrop(_, _)
\* a without its first k bytes
RDrop(a, k) ==
    IF k = 0 \/ a = <<>> THEN a
    ELSE IF Head(a).n <= k THEN RDrop(Tail(a), k - Head(a).n)
    ELSE <<[v |-> IF Head(a).v = ZeroByte THEN ZeroByte ELSE Head(a).v + k,
            n |-> Head(a).n - k]>> \o Tail(a)

\* a followed by b, the runs that meet merged so that equal arrays are equal values
RCat(a, b) ==
    IF a = <<>> THEN b
    ELSE IF b = <<>> THEN a
    ELSE LET x == a[Len(a)]
             y == b[1]
         IN  IF (x.v = ZeroByte /\ y.v = ZeroByte) \/ (x.v >= 0 /\ y.v = x.v + x.n)
             THEN SubSeq(a, 1, Len(a) - 1) \o <<[v |-> x.v, n |-> x.n + y.n]>> \o Tail(b)
             ELSE a \o b

\* the n bytes of a that start at index from
RSub(a, from, n) == RTake(RDrop(a, from), n)

\* MemsetZero left out: the buffer keeps what the last callback mixed into it
MemsetSkipped(dst, n) == dst

\* std::memset(dst, 0, n)
MemsetZero(dst, n) == RCat(Zeros(n), RDrop(dst, n))

\* std::memcpy(dst, src, n)
Memcpy(dst, src, n) == RCat(RTake(src, n), RDrop(dst, n))

\* SDL_MixAudio(dst, src, SDL_AUDIO_S16, len, 1.0f): each sample of src, scaled
\* by the volume 1.0, is added to the sample of dst.  Added to a zero sample it
\* gives the source sample; added to anything else the sum is a new value, written
\* here as the byte -2 (no run of the input).
MixedByte == 0 - 2

\* MixAudio at volume 0: nothing is added to dst
MixAudioMuted(dst, src, len) == dst

MixAudio(dst, src, len) ==
    IF RTake(dst, len) = Zeros(len)
    THEN RCat(RTake(src, len), RDrop(dst, len))
    ELSE RCat(<<[v |-> MixedByte, n |-> len]>>, RDrop(dst, len))

\* ------------------------------------------------------------ state
VARIABLES
    file_size,            \* length of the PCM file (fixed during a run)
    stop_requested,       \* the user has asked the player to stop
    total_bytes_read,     \* line 94; also the read position of the ifstream
    bytes_read,           \* line 97, the producer's local
    file_buffer,          \* line 25
    buffers,              \* line 22: buffers[i] = [data, size, pos]
    active_buffer_index,  \* line 23
    buffer_ready,         \* line 24
    mixed_buffer,         \* line 26
    cv_mutex,             \* line 28: "none" or the thread that holds it
    buffer_change_mutex,  \* line 28: "none" or the thread that holds it
    stream,               \* the SDL_AudioStream: "null", "paused", "playing", "destroyed"
    producer_pc,          \* where the main thread is
    fill_idx,             \* the chunk the producer fills: idx or !idx (lines 113-125)
    consumer_pc,          \* where the audio thread is
    additional_amount,    \* line 32, the callback's argument
    copy_size,            \* line 44, the callback's local
    mix_src,              \* history: all bytes passed as src to SDL_MixAudio, in order
    last_put,             \* the bytes this callback put into the stream (lines 38, 61)
    drained_chunks,       \* history: how often lines 54-56 ran
    exit_code             \* main's return value, -1 while it runs

\* The YUV player (src/demos/01_sdl3_play_yuv/sdl3_play_yuv.cc), a program of
\* its own: its state stands still while the PCM player runs, and the other way
\* round.
VARIABLES
    yuv_frames,           \* the complete frames the YUV file holds
    yuv_tail,             \* the file ends with an incomplete frame
    yuv_pc,               \* where the main thread of the YUV player is
    timer_pc,             \* where refresh_timer_thread is
    thread_quit,          \* line 50
    poll_quit,            \* line 50
    event_queue,          \* SDL's event queue, oldest first
    event,                \* line 46, the event SDL_WaitEvent returned last
    frames_read,          \* the read position of the file, in frames
    frames_shown,         \* history: the frames rendered (lines 150-153)
    user_events,          \* history: the events the user and the system sent
    quit_events_pushed,   \* history: how often line 100 ran
    yuv_exit_code         \* main's return value, -1 while it runs

yuvVars ==
    <<yuv_frames, yuv_tail, yuv_pc, timer_pc, thread_quit, poll_quit, event_queue,
      event, frames_read, frames_shown, user_events, quit_events_pushed,
      yuv_exit_code>>

\* The FLV muxer (src/demos/09_ffmpeg_mux_flv/ffmpeg_mux_flv.cpp), a third
\* program.
VARIABLES
    flv_pcm_frames,       \* the reads of one audio frame the PCM file can serve
    flv_pc,               \* where main is
    v_next_pts,           \* video_stream.next_codec_pts, in 1/kVideoFrameRate s
    a_next_pts,           \* audio_stream.next_codec_pts, in 1/kAudioSampleRate s
    encode_video,         \* line 309
    encode_audio,         \* line 309
    flv_error_code,       \* error_code of InnerMultiplexFLV and MultiplexFLV
    pcm_frames_read,      \* the reads FillPcmSample has done
    last_writer,          \* history: the writer the loop called last
    writer_calls,         \* history: the iterations of the loop
    writer_failed,        \* history: a writer has returned a negative result
    flv_exit_status       \* the exit status of the process, -1 while it runs

flvVars ==
    <<flv_pcm_frames, flv_pc, v_next_pts, a_next_pts, encode_video, encode_audio,
      flv_error_code, pcm_frames_read, last_writer, writer_calls, writer_failed,
      flv_exit_status>>

otherPrograms == <<yuvVars, flvVars>>

pcmVars ==
    <<file_size, stop_requested, total_bytes_read, bytes_read, file_buffer, buffers,
      active_buffer_index, buffer_ready, mixed_buffer, cv_mutex,
      buffer_change_mutex, stream, producer_pc, fill_idx, consumer_pc,
      additional_amount, copy_size, mix_src, last_put, drained_chunks, exit_code>>

vars == <<pcmVars, otherPrograms>>

environment == <<file_size, stop_requested>>

producerLocals == <<total_bytes_read, bytes_read, file_buffer, fill_idx>>

consumerLocals == <<additional_amount, copy_size, mixed_buffer>>

chunkState == <<buffers, active_buffer_index, buffer_ready>>

history == <<mix_src, last_put, drained_chunks>>

NoChunk == 2

Running == 0 - 1

\* lines 10-14 and 22-28: the statics after construction.  mixed_buffer is
\* allocated (value-initialised) by its initialiser, the chunks' data and
\* file_buffer are null until PlayPcmAudio allocates them.
PcmStart ==
    /\ stop_requested = FALSE
    /\ total_bytes_read = 0
    /\ bytes_read = 0
    /\ file_buffer = <<>>
    /\ buffers = [i \in {0, 1} |-> [data |-> <<>>, size |-> 0, pos |-> 0]]
    /\ active_buffer_index = 0
    /\ buffer_ready = [i \in {0, 1} |-> FALSE]
    /\ mixed_buffer = Zeros(kPcmBufferSize)
    /\ cv_mutex = "none"
    /\ buffer_change_mutex = "none"
    /\ stream = "null"
    /\ producer_pc = "sdl_init"
    /\ fill_idx = NoChunk
    /\ consumer_pc = "idle"
    /\ additional_amount = 0
    /\ copy_size = 0
    /\ mix_src = <<>>
    /\ last_put = <<>>
    /\ drained_chunks = 0
    /\ exit_code = Running

\* sdl3_play_yuv.cc, line 50 and the locals of PlayYuvVideo before main runs
YuvStart ==
    /\ yuv_pc = "sdl_init"
    /\ timer_pc = "not_started"
    /\ thread_quit = FALSE
    /\ poll_quit = FALSE
    /\ event_queue = <<>>
    /\ event = "none"
    /\ frames_read = 0
    /\ frames_shown = 0
    /\ user_events = 0
    /\ quit_events_pushed = 0
    /\ yuv_exit_code = Running

\* the YUV player is not run
YuvNotRun ==
    /\ yuv_frames = 0
    /\ yuv_tail = FALSE
    /\ YuvStart

\* ffmpeg_mux_flv.cpp: lines 308-310 and the OutputStream{} of line 364
FlvStart ==
    /\ flv_pc = "setup"
    /\ v_next_pts = 0
    /\ a_next_pts = 0
    /\ encode_video = TRUE
    /\ encode_audio = TRUE
    /\ flv_error_code = 0
    /\ pcm_frames_read = 0
    /\ last_writer = "none"
    /\ writer_calls = 0
    /\ writer_failed = FALSE
    /\ flv_exit_status = Running

\* the FLV muxer is not run
FlvNotRun ==
    /\ flv_pcm_frames = 0
    /\ FlvStart

\* the PCM player is not run
PcmNotRun ==
    /\ file_size = 0
    /\ PcmStart

\* the PCM player, given a file of one of the sizes
Init ==
    /\ file_size \in FileSizes
    /\ PcmStart
    /\ YuvNotRun
    /\ FlvNotRun

\* cv.notify_one(): wakes the producer if it is blocked in cv.wait, else nothing
NotifyOne(pc) == IF pc = "waiting" THEN "woken" ELSE pc

\* ------------------------------------------------------------ main, start-up
\* lines 136-139: SDL_Init succeeds or main returns 1
SdlInit(ok) ==
    /\ producer_pc = "sdl_init"
    /\ producer_pc' = IF ok THEN "open_device" ELSE "done"
    /\ exit_code' = IF ok THEN exit_code ELSE 1
    /\ UNCHANGED <<otherPrograms, environment, producerLocals, chunkState, consumerLocals,
                   cv_mutex, buffer_change_mutex, stream, consumer_pc, history>>

\* lines 73-77: the device stream is opened paused, or PlayPcmAudio returns false
OpenDevice(ok) ==
    /\ producer_pc = "open_device"
    /\ stream' = IF ok THEN "paused" ELSE "null"
    /\ producer_pc' = IF ok THEN "open_file" ELSE "done"
    /\ exit_code' = IF ok THEN exit_code ELSE 1
    /\ UNCHANGED <<otherPrograms, environment, producerLocals, chunkState, consumerLocals,
                   cv_mutex, buffer_change_mutex, consumer_pc, history>>

\* OpenFile without the SDL_DestroyAudioStream of line 82
OpenFileLeaksStream(ok) ==
    /\ producer_pc = "open_file"
    /\ producer_pc' = IF ok THEN "alloc" ELSE "done"
    /\ exit_code' = IF ok THEN exit_code ELSE 1
    /\ UNCHANGED <<otherPrograms, environment, producerLocals, chunkState, consumerLocals,
                   cv_mutex, buffer_change_mutex, stream, consumer_pc, history>>

\* lines 79-84: the file is opened, or the stream is destroyed and false returned
OpenFile(ok) ==
    /\ producer_pc = "open_file"
    /\ stream' = IF ok THEN stream ELSE "destroyed"
    /\ producer_pc' = IF ok THEN "alloc" ELSE "done"
    /\ exit_code' = IF ok THEN exit_code ELSE 1
    /\ UNCHANGED <<otherPrograms, environment, producerLocals, chunkState, consumerLocals,
                   cv_mutex, buffer_change_mutex, consumer_pc, history>>

\* Allocate that leaves out the second chunk (line 88 missing)
AllocateFirstOnly ==
    /\ producer_pc = "alloc"
    /\ file_buffer' = Zeros(kPcmBufferSize)
    /\ buffers' = [buffers EXCEPT ![0].data = Zeros(kPcmBufferSize)]
    /\ producer_pc' = "resume"
    /\ UNCHANGED <<otherPrograms, environment, total_bytes_read, bytes_read, fill_idx,
                   active_buffer_index, buffer_ready, consumerLocals, cv_mutex,
                   buffer_change_mutex, stream, consumer_pc, history, exit_code>>

\* lines 86-88: make_unique<uint8_t[]>(n) value-initialises, so all bytes are 0
Allocate ==
    /\ producer_pc = "alloc"
    /\ file_buffer' = Zeros(kPcmBufferSize)
    /\ buffers' = [i \in {0, 1} |-> [buffers[i] EXCEPT !.data = Zeros(kPcmBufferSize)]]
    /\ producer_pc' = "resume"
    /\ UNCHANGED <<otherPrograms, environment, total_bytes_read, bytes_read, fill_idx,
                   active_buffer_index, buffer_ready, consumerLocals, cv_mutex,
                   buffer_change_mutex, stream, consumer_pc, history, exit_code>>

\* line 91: from here on the audio thread calls AudioStreamCB
Resume ==
    /\ producer_pc = "resume"
    /\ stream' = "playing"
    /\ producer_pc' = "read"
    /\ UNCHANGED <<otherPrograms, environment, producerLocals, chunkState, consumerLocals,
                   cv_mutex, buffer_change_mutex, consumer_pc, history, exit_code>>

\* ------------------------------------------------------------ producer loop
\* Read that takes a short read for the end of the input (a test of the
\* stream's state in place of the test of gcount)
ReadShortIsEnd ==
    /\ producer_pc = "read"
    /\ LET n == Min(kPcmBufferSize, file_size - total_bytes_read)
       IN  /\ bytes_read' = n
           /\ file_buffer' = Memcpy(file_buffer, FileBytes(total_bytes_read, n), n)
           /\ total_bytes_read' = total_bytes_read + n
           /\ producer_pc' = IF n < kPcmBufferSize THEN "destroy" ELSE "cv_lock"
    /\ UNCHANGED <<otherPrograms, environment, fill_idx, chunkState, consumerLocals, cv_mutex,
                   buffer_change_mutex, stream, consumer_pc, history, exit_code>>

\* Read with a stop flag tested at the top of the loop: once a stop is asked
\* for, the loop is left without reading
ReadUnlessStopped ==
    /\ producer_pc = "read"
    /\ LET n == IF stop_requested
                THEN 0
                ELSE Min(kPcmBufferSize, file_size - total_bytes_read)
       IN  /\ bytes_read' = n
           /\ file_buffer' = Memcpy(file_buffer, FileBytes(total_bytes_read, n), n)
           /\ total_bytes_read' = total_bytes_read + n
           /\ producer_pc' = IF n = 0 THEN "destroy" ELSE "cv_lock"
    /\ UNCHANGED <<otherPrograms, environment, fill_idx, chunkState, consumerLocals, cv_mutex,
                   buffer_change_mutex, stream, consumer_pc, history, exit_code>>

\* Read without the test of lines 98-100: a read of zero bytes is passed on to
\* the fill like any other
ReadForwardsEmpty ==
    /\ producer_pc = "read"
    /\ LET n == Min(kPcmBufferSize, file_size - total_bytes_read)
       IN  /\ bytes_read' = n
           /\ file_buffer' = Memcpy(file_buffer, FileBytes(total_bytes_read, n), n)
           /\ total_bytes_read' = total_bytes_read + n
           /\ producer_pc' = "cv_lock"
    /\ UNCHANGED <<otherPrograms, environment, fill_idx, chunkState, consumerLocals, cv_mutex,
                   buffer_change_mutex, stream, consumer_pc, history, exit_code>>

\* lines 96-101: file.read of kPcmBufferSize bytes and gcount().  After a short
\* read the stream is at end of file (eofbit and failbit set), so the next read
\* transfers nothing: in both cases the count is what is left, at most a chunk.
Read ==
    /\ producer_pc = "read"
    /\ LET n == Min(kPcmBufferSize, file_size - total_bytes_read)
       IN  /\ bytes_read' = n
           /\ file_buffer' = Memcpy(file_buffer, FileBytes(total_bytes_read, n), n)
           /\ total_bytes_read' = total_bytes_read + n
           /\ producer_pc' = IF n = 0 THEN "destroy" ELSE "cv_lock"
    /\ UNCHANGED <<otherPrograms, environment, fill_idx, chunkState, consumerLocals, cv_mutex,
                   buffer_change_mutex, stream, consumer_pc, history, exit_code>>

\* line 107: only the producer ever locks cv_mutex
CvLock ==
    /\ producer_pc = "cv_lock"
    /\ cv_mutex = "none"
    /\ cv_mutex' = "producer"
    /\ producer_pc' = "wait_pred"
    /\ UNCHANGED <<otherPrograms, environment, producerLocals, chunkState, consumerLocals,
                   buffer_change_mutex, stream, consumer_pc, history, exit_code>>

\* cv.wait without its predicate: any return from the wait counts
WaitPredicateDropped(ready) == TRUE

\* line 108, the predicate of cv.wait
WaitPredicate(ready) == ~ready[0] \/ ~ready[1]

\* lines 108-109: cv.wait(lock, pred) is while (!pred()) wait(lock).  The
\* predicate is evaluated with cv_mutex held; when it holds the wait returns and
\* line 109 unlocks, when it does not the thread goes on to block.  (The two
\* atomic loads of the predicate are one step: a store between them gives the
\* state a store right after this step gives.)
WaitPred ==
    /\ producer_pc = "wait_pred"
    /\ IF WaitPredicate(buffer_ready)
       THEN /\ cv_mutex' = "none"
            /\ producer_pc' = "fill_lock"
       ELSE /\ cv_mutex' = cv_mutex
            /\ producer_pc' = "wait_block"
    /\ UNCHANGED <<otherPrograms, environment, producerLocals, chunkState, consumerLocals,
                   buffer_change_mutex, stream, consumer_pc, history, exit_code>>

\* line 108, cv.wait(lock): releases cv_mutex and blocks, atomically
WaitBlock ==
    /\ producer_pc = "wait_block"
    /\ cv_mutex' = "none"
    /\ producer_pc' = "waiting"
    /\ UNCHANGED <<otherPrograms, environment, producerLocals, chunkState, consumerLocals,
                   buffer_change_mutex, stream, consumer_pc, history, exit_code>>

\* line 108: a condition variable may wake without a notification
SpuriousWakeup ==
    /\ producer_pc = "waiting"
    /\ producer_pc' = "woken"
    /\ UNCHANGED <<otherPrograms, environment, producerLocals, chunkState, consumerLocals, cv_mutex,
                   buffer_change_mutex, stream, consumer_pc, history, exit_code>>

\* line 108: the woken thread takes cv_mutex again and re-evaluates the predicate
Wake ==
    /\ producer_pc = "woken"
    /\ cv_mutex = "none"
    /\ cv_mutex' = "producer"
    /\ producer_pc' = "wait_pred"
    /\ UNCHANGED <<otherPrograms, environment, producerLocals, chunkState, consumerLocals,
                   buffer_change_mutex, stream, consumer_pc, history, exit_code>>

\* FillTarget without the test of the flags: always the chunk that is not active
FillTargetOther(idx, ready) == 1 - idx

\* FillTarget without the test of the flags: always the active chunk
FillTargetActive(idx, ready) == idx

\* FillTarget with the two branches in the other order: the chunk that is not
\* active first
FillTargetSwapped(idx, ready) ==
    IF ~ready[1 - idx] THEN 1 - idx
    ELSE IF ~ready[idx] THEN idx
    ELSE NoChunk

\* lines 113-126: the chunk the producer fills, given idx = active_buffer_index
FillTarget(idx, ready) ==
    IF ~ready[idx] THEN idx
    ELSE IF ~ready[1 - idx] THEN 1 - idx
    ELSE NoChunk

\* lines 112-114, 120: lock buffer_change_mutex, read idx, choose the branch
FillLock ==
    /\ producer_pc = "fill_lock"
    /\ buffer_change_mutex = "none"
    /\ buffer_change_mutex' = "producer"
    /\ fill_idx' = FillTarget(active_buffer_index, buffer_ready)
    /\ producer_pc' = IF fill_idx' = NoChunk THEN "fill_unlock" ELSE "fill_copy"
    /\ UNCHANGED <<otherPrograms, environment, total_bytes_read, bytes_read, file_buffer, chunkState,
                   consumerLocals, cv_mutex, stream, consumer_pc, history, exit_code>>

\* FilledChunk without the reset of pos (line 118, 124 missing)
FilledChunkKeepsPos(buf, src, n) ==
    [data |-> Memcpy(buf.data, src, n), size |-> n, pos |-> buf.pos]

\* lines 116-118 (122-124): memcpy, size, pos of the chosen chunk
FilledChunk(buf, src, n) ==
    [data |-> Memcpy(buf.data, src, n), size |-> n, pos |-> 0]

FillCopy ==
    /\ producer_pc = "fill_copy"
    /\ buffers' = [buffers EXCEPT
                     ![fill_idx] = FilledChunk(buffers[fill_idx], file_buffer, bytes_read)]
    /\ producer_pc' = "fill_ready"
    /\ UNCHANGED <<otherPrograms, environment, producerLocals, active_buffer_index, buffer_ready,
                   consumerLocals, cv_mutex, buffer_change_mutex, stream,
                   consumer_pc, history, exit_code>>

\* FillReady that also points the active index at the chunk it publishes
FillReadySetsActive ==
    /\ producer_pc = "fill_ready"
    /\ buffer_ready' = [buffer_ready EXCEPT ![fill_idx] = TRUE]
    /\ active_buffer_index' = fill_idx
    /\ producer_pc' = "fill_unlock"
    /\ UNCHANGED <<otherPrograms, environment, producerLocals, buffers,
                   consumerLocals, cv_mutex, buffer_change_mutex, stream,
                   consumer_pc, history, exit_code>>

\* line 119 (125): the atomic store that publishes the chunk
FillReady ==
    /\ producer_pc = "fill_ready"
    /\ buffer_ready' = [buffer_ready EXCEPT ![fill_idx] = TRUE]
    /\ producer_pc' = "fill_unlock"
    /\ UNCHANGED <<otherPrograms, environment, producerLocals, buffers, active_buffer_index,
                   consumerLocals, cv_mutex, buffer_change_mutex, stream,
                   consumer_pc, history, exit_code>>

\* FillUnlock without the unlock: the producer keeps buffer_change_mutex
FillUnlockKeepsMutex ==
    /\ producer_pc = "fill_unlock"
    /\ fill_idx' = NoChunk
    /\ producer_pc' = "read"
    /\ UNCHANGED <<otherPrograms, environment, total_bytes_read, bytes_read, file_buffer, chunkState,
                   consumerLocals, cv_mutex, buffer_change_mutex, stream,
                   consumer_pc, history, exit_code>>

\* line 127
FillUnlock ==
    /\ producer_pc = "fill_unlock"
    /\ buffer_change_mutex' = "none"
    /\ fill_idx' = NoChunk
    /\ producer_pc' = "read"
    /\ UNCHANGED <<otherPrograms, environment, total_bytes_read, bytes_read, file_buffer, chunkState,
                   consumerLocals, cv_mutex, stream, consumer_pc, history, exit_code>>

\* lines 130-132 and 145-148: SDL_DestroyAudioStream takes the stream's lock,
\* which SDL holds around a running callback, so it returns between two
\* callbacks and none runs after it; PlayPcmAudio returns true, main returns 0.
Destroy ==
    /\ producer_pc = "destroy"
    /\ consumer_pc = "idle"
    /\ stream' = "destroyed"
    /\ producer_pc' = "done"
    /\ exit_code' = 0
    /\ UNCHANGED <<otherPrograms, environment, producerLocals, chunkState, consumerLocals,
                   cv_mutex, buffer_change_mutex, consumer_pc, history>>

\* lines 147-149 and the destructors of the statics of lines 22-26: main
\* returns, the unique_ptrs release the chunks, file_buffer and mixed_buffer
Exit ==
    /\ producer_pc = "done"
    /\ buffers' = [i \in {0, 1} |-> [buffers[i] EXCEPT !.data = <<>>]]
    /\ file_buffer' = <<>>
    /\ mixed_buffer' = <<>>
    /\ producer_pc' = "exited"
    /\ UNCHANGED <<otherPrograms, environment, total_bytes_read, bytes_read, fill_idx,
                   active_buffer_index, buffer_ready, additional_amount, copy_size,
                   cv_mutex, buffer_change_mutex, stream, consumer_pc, history,
                   exit_code>>

\* ------------------------------------------------------------ AudioStreamCB
\* lines 32-33: SDL calls the callback for n more bytes; memset of mixed_buffer.
\* SDL has taken what the callback before put into the stream.
CbEnter(n) ==
    /\ consumer_pc = "idle"
    /\ stream = "playing"
    /\ additional_amount' = n
    /\ mixed_buffer' = MemsetZero(mixed_buffer, n)
    /\ last_put' = <<>>
    /\ consumer_pc' = "check"
    /\ UNCHANGED <<otherPrograms, environment, producerLocals, chunkState, copy_size, cv_mutex,
                   buffer_change_mutex, stream, producer_pc, mix_src, drained_chunks,
                   exit_code>>

\* CbNotReady without the cv.notify_one() of line 37
CbNotReadySilent ==
    /\ consumer_pc = "check"
    /\ ~buffer_ready[active_buffer_index]
    /\ last_put' = RTake(mixed_buffer, additional_amount)
    /\ additional_amount' = 0
    /\ consumer_pc' = "idle"
    /\ UNCHANGED <<otherPrograms, environment, producerLocals, chunkState, copy_size, mixed_buffer,
                   cv_mutex, buffer_change_mutex, stream, producer_pc, mix_src,
                   drained_chunks, exit_code>>

\* lines 36-40: the active chunk is not ready: notify, put silence, return
CbNotReady ==
    /\ consumer_pc = "check"
    /\ ~buffer_ready[active_buffer_index]
    /\ producer_pc' = NotifyOne(producer_pc)
    /\ last_put' = RTake(mixed_buffer, additional_amount)
    /\ additional_amount' = 0
    /\ consumer_pc' = "idle"
    /\ UNCHANGED <<otherPrograms, environment, producerLocals, chunkState, copy_size, mixed_buffer,
                   cv_mutex, buffer_change_mutex, stream, mix_src, drained_chunks,
                   exit_code>>

\* line 36: the active chunk is ready
CbReady ==
    /\ consumer_pc = "check"
    /\ buffer_ready[active_buffer_index]
    /\ consumer_pc' = "calc"
    /\ UNCHANGED <<otherPrograms, environment, producerLocals, chunkState, consumerLocals, cv_mutex,
                   buffer_change_mutex, stream, producer_pc, history, exit_code>>

\* CopySize without the std::min against what is left of the chunk
CopySizeUnclamped(amount, buf) == amount

\* lines 43-44
CopySize(amount, buf) == Min(amount, buf.size - buf.pos)

\* lines 42-44: size and pos of the active chunk are read without the mutex
CbCalc ==
    /\ consumer_pc = "calc"
    /\ copy_size' = CopySize(additional_amount, buffers[active_buffer_index])
    /\ consumer_pc' = "mix"
    /\ UNCHANGED <<otherPrograms, environment, producerLocals, chunkState, additional_amount,
                   mixed_buffer, cv_mutex, buffer_change_mutex, stream, producer_pc,
                   history, exit_code>>

\* line 47: copy_size bytes from data + pos are mixed into mixed_buffer
CbMix ==
    /\ consumer_pc = "mix"
    /\ LET buffer == buffers[active_buffer_index]
           src == RDrop(buffer.data, buffer.pos)
       IN  /\ mixed_buffer' = MixAudio(mixed_buffer, src, copy_size)
           /\ mix_src' = RCat(mix_src, RTake(src, copy_size))
    /\ consumer_pc' = "lock"
    /\ UNCHANGED <<otherPrograms, environment, producerLocals, chunkState, additional_amount,
                   copy_size, cv_mutex, buffer_change_mutex, stream, producer_pc,
                   last_put, drained_chunks, exit_code>>

\* line 51
CbLock ==
    /\ consumer_pc = "lock"
    /\ buffer_change_mutex = "none"
    /\ buffer_change_mutex' = "consumer"
    /\ consumer_pc' = "update"
    /\ UNCHANGED <<otherPrograms, environment, producerLocals, chunkState, consumerLocals, cv_mutex,
                   stream, producer_pc, history, exit_code>>

\* Exhausted with the comparison dropped: every update hands the chunk back
ExhaustedAlways(buf) == TRUE

\* Exhausted with > for >=: a chunk drained to its last byte is not handed back
ExhaustedStrict(buf) == buf.pos > buf.size

\* line 53: the chunk is used up
Exhausted(buf) == buf.pos >= buf.size

\* lines 52-58: advance pos; when the chunk is used up clear its flag, flip the
\* active index and notify; unlock
CbUpdate ==
    /\ consumer_pc = "update"
    /\ LET a == active_buffer_index
           buffer == [buffers[a] EXCEPT !.pos = @ + copy_size]
       IN  /\ buffers' = [buffers EXCEPT ![a] = buffer]
           /\ IF Exhausted(buffer)
              THEN /\ buffer_ready' = [buffer_ready EXCEPT ![a] = FALSE]
                   /\ active_buffer_index' = 1 - a
                   /\ producer_pc' = NotifyOne(producer_pc)
                   /\ drained_chunks' = drained_chunks + 1
              ELSE UNCHANGED <<buffer_ready, active_buffer_index, producer_pc,
                               drained_chunks>>
    /\ buffer_change_mutex' = "none"
    /\ consumer_pc' = "put"
    /\ UNCHANGED <<otherPrograms, environment, producerLocals, consumerLocals, cv_mutex, stream,
                   mix_src, last_put, exit_code>>

\* CbPut that puts only the bytes that were mixed (copy_size for
\* additional_amount in line 61)
CbPutMixedOnly ==
    /\ consumer_pc = "put"
    /\ last_put' = RTake(mixed_buffer, copy_size)
    /\ additional_amount' = 0
    /\ copy_size' = 0
    /\ consumer_pc' = "idle"
    /\ UNCHANGED <<otherPrograms, environment, producerLocals, chunkState, mixed_buffer, cv_mutex,
                   buffer_change_mutex, stream, producer_pc, mix_src, drained_chunks,
                   exit_code>>

\* line 61: additional_amount bytes of mixed_buffer go to the stream; return
CbPut ==
    /\ consumer_pc = "put"
    /\ last_put' = RTake(mixed_buffer, additional_amount)
    /\ additional_amount' = 0
    /\ copy_size' = 0
    /\ consumer_pc' = "idle"
    /\ UNCHANGED <<otherPrograms, environment, producerLocals, chunkState, mixed_buffer, cv_mutex,
                   buffer_change_mutex, stream, producer_pc, mix_src, drained_chunks,
                   exit_code>>

\* ------------------------------------------------------------ specification
Producer ==
    \/ \E ok \in BOOLEAN : SdlInit(ok)
    \/ \E ok \in BOOLEAN : OpenDevice(ok)
    \/ \E ok \in BOOLEAN : OpenFile(ok)
    \/ Allocate
    \/ Resume
    \/ Read
    \/ CvLock
    \/ WaitPred
    \/ WaitBlock
    \/ SpuriousWakeup
    \/ Wake
    \/ FillLock
    \/ FillCopy
    \/ FillReady
    \/ FillUnlock
    \/ Destroy
    \/ Exit

Consumer ==
    \/ \E n \in Amounts : CbEnter(n)
    \/ CbNotReady
    \/ CbReady
    \/ CbCalc
    \/ CbMix
    \/ CbLock
    \/ CbUpdate
    \/ CbPut

Next == Producer \/ Consumer

Spec == Init /\ [][Next]_vars

\* Requests above the capacity of mixed_buffer.  SDL asks for what the device
\* wants; nothing in the callback or in PlayPcmAudio bounds it by kPcmBufferSize.
OversizeAmounts ==
    {kPcmBufferSize + k * (kPcmBufferSize \div ReqDivs) : k \in 1..ReqDivs}

\* lines 32-33 with additional_amount > kPcmBufferSize: the memset writes past
\* the end of the kPcmBufferSize bytes of mixed_buffer (line 26).  The array is
\* shown with the n bytes written; what the program does from here on is
\* undefined, and no step of the callback is modelled after it.
CbEnterOversize(n) ==
    /\ consumer_pc = "idle"
    /\ stream = "playing"
    /\ n > kPcmBufferSize
    /\ additional_amount' = n
    /\ mixed_buffer' = MemsetZero(mixed_buffer, n)
    /\ last_put' = <<>>
    /\ consumer_pc' = "overrun"
    /\ UNCHANGED <<otherPrograms, environment, producerLocals, chunkState, copy_size, cv_mutex,
                   buffer_change_mutex, stream, producer_pc, mix_src, drained_chunks,
                   exit_code>>

\* The player with a device that may ask for any amount.
OverrunNext == Next \/ \E n \in OversizeAmounts : CbEnterOversize(n)

OverrunSpec == Init /\ [][OverrunNext]_vars

\* The user asks the player to stop while it plays.  Nothing in PlayPcmAudio or
\* AudioStreamCB reads such a request: the loop of lines 95-128 has one exit,
\* the zero-byte read of lines 98-100.
RequestStop ==
    /\ ~stop_requested
    /\ producer_pc \notin {"done", "exited"}
    /\ stop_requested' = TRUE
    /\ UNCHANGED <<otherPrograms, file_size, producerLocals, chunkState,
                   consumerLocals, cv_mutex, buffer_change_mutex, stream,
                   producer_pc, consumer_pc, history, exit_code>>

\* The player with a user who may ask it to stop.
CancelNext == Next \/ RequestStop

CancelSpec == Init /\ [][CancelNext]_vars

\* Fairness.  Each thread, when it can take its next step, takes it; a spurious
\* wakeup is never owed.  The two mutexes and the stream lock taken by
\* SDL_DestroyAudioStream are free between two callbacks, which the audio thread
\* spaces by the device period, so a thread that keeps asking for one gets it.
\* The audio device keeps asking for data: a callback with a positive amount
\* comes again and again while the stream plays.
ProducerStep ==
    \/ \E ok \in BOOLEAN : SdlInit(ok)
    \/ \E ok \in BOOLEAN : OpenDevice(ok)
    \/ \E ok \in BOOLEAN : OpenFile(ok)
    \/ Allocate \/ Resume \/ Read \/ CvLock \/ WaitPred \/ WaitBlock \/ Wake
    \/ FillCopy \/ FillReady \/ FillUnlock \/ Exit

ConsumerStep == CbNotReady \/ CbReady \/ CbCalc \/ CbMix \/ CbUpdate \/ CbPut

LiveSpec ==
    /\ Spec
    /\ WF_vars(ProducerStep)
    /\ SF_vars(FillLock)
    /\ SF_vars(Destroy)
    /\ WF_vars(ConsumerStep)
    /\ SF_vars(CbLock)
    /\ SF_vars(\E n \in PosAmounts : CbEnter(n))

\* ------------------------------------------------------------ YUV player
\* sdl3_play_yuv.cc.  The main thread runs the event loop; refresh_timer_thread
\* pushes a frame event every kTargetFrameTimeMs; both share thread_quit and
\* SDL's event queue.
MaxFrames == 2

MaxQueue == 3

MaxUserEvents == 2

otherThanYuv == <<pcmVars, flvVars>>

yuvInput == <<yuv_frames, yuv_tail>>

yuvHistory == <<frames_shown, user_events, quit_events_pushed>>

\* the events of other origin than the timer thread: SDL_EVENT_QUIT,
\* SDL_EVENT_WINDOW_RESIZED and any event the switch leaves to its default
UserEventTypes == {"quit", "resized", "other"}

YuvInit ==
    /\ PcmNotRun
    /\ FlvNotRun
    /\ yuv_frames \in 0..MaxFrames
    /\ yuv_tail \in BOOLEAN
    /\ YuvStart

\* a return of false from PlayYuvVideo, and of 1 from main (lines 177-178)
YuvFail ==
    /\ yuv_pc' = "returned"
    /\ yuv_exit_code' = 1

\* lines 166-169
YSdlInit(ok) ==
    /\ yuv_pc = "sdl_init"
    /\ IF ok THEN yuv_pc' = "create_window" /\ yuv_exit_code' = yuv_exit_code
             ELSE YuvFail
    /\ UNCHANGED <<otherThanYuv, yuvInput, timer_pc, thread_quit, poll_quit, event_queue,
                   event, frames_read, yuvHistory>>

\* lines 53-66
YCreateWindow(ok) ==
    /\ yuv_pc = "create_window"
    /\ IF ok THEN yuv_pc' = "create_texture" /\ yuv_exit_code' = yuv_exit_code
             ELSE YuvFail
    /\ UNCHANGED <<otherThanYuv, yuvInput, timer_pc, thread_quit, poll_quit, event_queue,
                   event, frames_read, yuvHistory>>

\* lines 69-74
YCreateTexture(ok) ==
    /\ yuv_pc = "create_texture"
    /\ IF ok THEN yuv_pc' = "open_file" /\ yuv_exit_code' = yuv_exit_code
             ELSE YuvFail
    /\ UNCHANGED <<otherThanYuv, yuvInput, timer_pc, thread_quit, poll_quit, event_queue,
                   event, frames_read, yuvHistory>>

\* lines 77-88
YOpenFile(ok) ==
    /\ yuv_pc = "open_file"
    /\ IF ok THEN yuv_pc' = "spawn" /\ yuv_exit_code' = yuv_exit_code
             ELSE YuvFail
    /\ UNCHANGED <<otherThanYuv, yuvInput, timer_pc, thread_quit, poll_quit, event_queue,
                   event, frames_read, yuvHistory>>

\* line 91: the timer thread starts
YSpawnTimer ==
    /\ yuv_pc = "spawn"
    /\ timer_pc' = "check"
    /\ yuv_pc' = "loop_test"
    /\ UNCHANGED <<otherThanYuv, yuvInput, thread_quit, poll_quit, event_queue, event,
                   frames_read, yuvHistory, yuv_exit_code>>

\* line 104, and line 156 when the loop is left
YLoopTest ==
    /\ yuv_pc = "loop_test"
    /\ yuv_pc' = IF poll_quit THEN "join" ELSE "wait_event"
    /\ UNCHANGED <<otherThanYuv, yuvInput, timer_pc, thread_quit, poll_quit, event_queue,
                   event, frames_read, yuvHistory, yuv_exit_code>>

\* line 105: SDL_WaitEvent blocks until the queue holds an event and takes the
\* oldest
YWaitEvent ==
    /\ yuv_pc = "wait_event"
    /\ event_queue # <<>>
    /\ event' = Head(event_queue)
    /\ event_queue' = Tail(event_queue)
    /\ yuv_pc' = "dispatch"
    /\ UNCHANGED <<otherThanYuv, yuvInput, timer_pc, thread_quit, poll_quit, frames_read,
                   yuvHistory, yuv_exit_code>>

\* YDispatch that leaves the loop on SDL_EVENT_QUIT itself (poll_quit for
\* thread_quit in line 108)
YDispatchQuitsAtOnce ==
    /\ yuv_pc = "dispatch"
    /\ thread_quit' = thread_quit
    /\ poll_quit' = (poll_quit \/ event \in {"quit", "user_quit"})
    /\ yuv_pc' = IF event = "frame" THEN "check_quit" ELSE "loop_test"
    /\ UNCHANGED <<otherThanYuv, yuvInput, timer_pc, event_queue, event, frames_read,
                   yuvHistory, yuv_exit_code>>

\* lines 106-120, the switch
YDispatch ==
    /\ yuv_pc = "dispatch"
    /\ thread_quit' = (thread_quit \/ event = "quit")
    /\ poll_quit' = (poll_quit \/ event = "user_quit")
    /\ yuv_pc' = IF event = "frame" THEN "check_quit" ELSE "loop_test"
    /\ UNCHANGED <<otherThanYuv, yuvInput, timer_pc, event_queue, event, frames_read,
                   yuvHistory, yuv_exit_code>>

\* lines 122-124
YCheckQuit ==
    /\ yuv_pc = "check_quit"
    /\ yuv_pc' = IF thread_quit THEN "loop_test" ELSE "read_frame"
    /\ UNCHANGED <<otherThanYuv, yuvInput, timer_pc, thread_quit, poll_quit, event_queue,
                   event, frames_read, yuvHistory, yuv_exit_code>>

\* lines 127-136: a complete frame is read, or the end of the file or an
\* incomplete frame sets thread_quit
YReadFrame ==
    /\ yuv_pc = "read_frame"
    /\ IF frames_read < yuv_frames
       THEN /\ frames_read' = frames_read + 1
            /\ thread_quit' = thread_quit
            /\ yuv_pc' = "render"
       ELSE /\ frames_read' = frames_read
            /\ thread_quit' = TRUE
            /\ yuv_pc' = "loop_test"
    /\ UNCHANGED <<otherThanYuv, yuvInput, timer_pc, poll_quit, event_queue, event,
                   yuvHistory, yuv_exit_code>>

\* lines 139-153
YRender ==
    /\ yuv_pc = "render"
    /\ frames_shown' = frames_shown + 1
    /\ yuv_pc' = "loop_test"
    /\ UNCHANGED <<otherThanYuv, yuvInput, timer_pc, thread_quit, poll_quit, event_queue,
                   event, frames_read, user_events, quit_events_pushed,
                   yuv_exit_code>>

\* lines 158-161 and 177-178: join returns when the timer thread has ended
YJoin ==
    /\ yuv_pc = "join"
    /\ timer_pc = "finished"
    /\ yuv_pc' = "returned"
    /\ yuv_exit_code' = 0
    /\ UNCHANGED <<otherThanYuv, yuvInput, timer_pc, thread_quit, poll_quit, event_queue,
                   event, frames_read, yuvHistory>>

\* line 92
TCheck ==
    /\ timer_pc = "check"
    /\ timer_pc' = IF thread_quit THEN "push_quit" ELSE "push_frame"
    /\ UNCHANGED <<otherThanYuv, yuvInput, yuv_pc, thread_quit, poll_quit, event_queue,
                   event, frames_read, yuvHistory, yuv_exit_code>>

\* lines 93-96: push a frame event, sleep.  The queue is kept to MaxQueue events.
TPushFrame ==
    /\ timer_pc = "push_frame"
    /\ Len(event_queue) < MaxQueue
    /\ event_queue' = Append(event_queue, "frame")
    /\ timer_pc' = "check"
    /\ UNCHANGED <<otherThanYuv, yuvInput, yuv_pc, thread_quit, poll_quit, event,
                   frames_read, yuvHistory, yuv_exit_code>>

\* lines 98-101: push the quit event; the thread ends
TPushQuit ==
    /\ timer_pc = "push_quit"
    /\ event_queue' = Append(event_queue, "user_quit")
    /\ quit_events_pushed' = quit_events_pushed + 1
    /\ timer_pc' = "finished"
    /\ UNCHANGED <<otherThanYuv, yuvInput, yuv_pc, thread_quit, poll_quit, event,
                   frames_read, frames_shown, user_events, yuv_exit_code>>

\* the window system or the user adds an event to SDL's queue
UserEvent(e) ==
    /\ yuv_pc \notin {"sdl_init", "returned"}
    /\ user_events < MaxUserEvents
    /\ Len(event_queue) < MaxQueue
    /\ event_queue' = Append(event_queue, e)
    /\ user_events' = user_events + 1
    /\ UNCHANGED <<otherThanYuv, yuvInput, yuv_pc, timer_pc, thread_quit, poll_quit,
                   event, frames_read, frames_shown, quit_events_pushed,
                   yuv_exit_code>>

YuvMain ==
    \/ \E ok \in BOOLEAN : YSdlInit(ok)
    \/ \E ok \in BOOLEAN : YCreateWindow(ok)
    \/ \E ok \in BOOLEAN : YCreateTexture(ok)
    \/ \E ok \in BOOLEAN : YOpenFile(ok)
    \/ YSpawnTimer
    \/ YLoopTest
    \/ YWaitEvent
    \/ YDispatch
    \/ YCheckQuit
    \/ YReadFrame
    \/ YRender
    \/ YJoin

YuvTimer == TCheck \/ TPushFrame \/ TPushQuit

YuvNext == YuvMain \/ YuvTimer \/ \E e \in UserEventTypes : UserEvent(e)

YuvSpec == YuvInit /\ [][YuvNext]_vars

\* Both threads are scheduled again and again.  A thread's step that waits (for
\* an event, for room in the queue, for the other thread to end) is taken once
\* what it waits for is there.
YuvLiveSpec == YuvSpec /\ WF_vars(YuvMain) /\ WF_vars(YuvTimer)

\* ------------------------------------------------------------ FLV muxer
\* ffmpeg_mux_flv.cpp
kDurationSeconds == 10

kVideoFrameRate == 25

kAudioSampleRate == 48000

\* codec_ctx->frame_size of the AAC encoder, the samples of one audio frame
\* (line 91)
AacFrameSize == 1024

\* a PCM file that ends after this many audio frames
ShortPcm == 3

\* the reads of one audio frame it takes to reach kDurationSeconds
AudioFramesNeeded ==
    (kDurationSeconds * kAudioSampleRate + AacFrameSize - 1) \div AacFrameSize

FlvPcmFrames == {0, ShortPcm, AudioFramesNeeded}

\* a negative AVERROR code as the library calls return it
LibError == 0 - 22

otherThanFlv == <<pcmVars, yuvVars>>

flvHistory == <<last_writer, writer_calls, writer_failed>>

Sign(x) == IF x > 0 THEN 1 ELSE IF x < 0 THEN 0 - 1 ELSE 0

\* av_compare_ts without the time bases: the two counts compared as they are
CompareTsRaw(ts_a, den_a, ts_b, den_b) == Sign(ts_a - ts_b)

\* av_compare_ts(ts_a, {1, den_a}, ts_b, {1, den_b}): -1, 0 or 1 as ts_a / den_a
\* is before, at or after ts_b / den_b
CompareTs(ts_a, den_a, ts_b, den_b) == Sign(ts_a * den_b - ts_b * den_a)

\* WriteVideoFrame without line 227: next_codec_pts is not advanced
WriteVideoFrameNoAdvance(pts, fail) ==
    LET compare_ts == CompareTs(pts, kVideoFrameRate, kDurationSeconds, 1)
    IN  IF fail THEN [ret |-> 0 - 1, pts |-> pts]
        ELSE IF compare_ts >= 0 THEN [ret |-> 1, pts |-> pts]
        ELSE [ret |-> 0, pts |-> pts]

\* lines 151-230: the result and the new next_codec_pts.  fail: one of
\* FillYuv420pImage, avcodec_send_frame, avcodec_receive_packet and
\* av_interleaved_write_frame reports an error.
WriteVideoFrame(pts, fail) ==
    LET compare_ts == CompareTs(pts, kVideoFrameRate, kDurationSeconds, 1)
    IN  IF fail THEN [ret |-> 0 - 1, pts |-> pts]
        ELSE IF compare_ts >= 0 THEN [ret |-> 1, pts |-> pts]
        ELSE [ret |-> 0, pts |-> pts + 1]

\* lines 232-303: the result, the new next_codec_pts and the reads done.
\* FillPcmSample fails at the end of the PCM file (lines 75, 119); a read that
\* gets part of a frame counts as a frame (line 148).
WriteAudioFrame(pts, frames_left, fail) ==
    LET compare_ts == CompareTs(pts, kAudioSampleRate, kDurationSeconds, 1)
    IN  IF compare_ts >= 0
        THEN [ret |-> IF fail THEN 0 - 1 ELSE 1, pts |-> pts, reads |-> 0]
        ELSE IF frames_left = 0
        THEN [ret |-> 0 - 1, pts |-> pts, reads |-> 0]
        ELSE IF fail
        THEN [ret |-> 0 - 1, pts |-> pts, reads |-> 1]
        ELSE [ret |-> 0, pts |-> pts + AacFrameSize, reads |-> 1]

FlvInit ==
    /\ PcmNotRun
    /\ YuvNotRun
    /\ flv_pcm_frames \in FlvPcmFrames
    /\ FlvStart

\* lines 361-514: allocation of the context, the streams, the encoders, the
\* frames and packets and the open of the PCM file.  r is 0, or what the first
\* failing step leaves in error_code: 1 (lines 367, 462, 469, the comparison
\* is what is assigned), -1, or the code of avcodec_open2.
FlvSetup(r) ==
    /\ flv_pc = "setup"
    /\ flv_error_code' = r
    /\ flv_pc' = IF r = 0 THEN "avio_open" ELSE "exit"
    /\ UNCHANGED <<otherThanFlv, flv_pcm_frames, v_next_pts, a_next_pts,
                   encode_video, encode_audio, pcm_frames_read, flvHistory,
                   flv_exit_status>>

\* lines 312-319
FlvAvioOpen(ok) ==
    /\ flv_pc = "avio_open"
    /\ flv_error_code' = IF ok THEN 0 ELSE LibError
    /\ flv_pc' = IF ok THEN "write_header" ELSE "exit"
    /\ UNCHANGED <<otherThanFlv, flv_pcm_frames, v_next_pts, a_next_pts,
                   encode_video, encode_audio, pcm_frames_read, flvHistory,
                   flv_exit_status>>

\* lines 324-328: error_code gets the value of the comparison, 0 or 1
FlvWriteHeader(ok) ==
    /\ flv_pc = "write_header"
    /\ flv_error_code' = IF ok THEN 0 ELSE 1
    /\ flv_pc' = IF ok THEN "loop" ELSE "exit"
    /\ UNCHANGED <<otherThanFlv, flv_pcm_frames, v_next_pts, a_next_pts,
                   encode_video, encode_audio, pcm_frames_read, flvHistory,
                   flv_exit_status>>

\* line 335, the test that chooses the video branch
VideoTurn ==
    /\ encode_video
    /\ CompareTs(v_next_pts, kVideoFrameRate, a_next_pts, kAudioSampleRate) <= 0

\* lines 330-339: an iteration that takes the video branch
MuxVideo(fail) ==
    /\ flv_pc = "loop"
    /\ encode_audio \/ encode_video
    /\ VideoTurn
    /\ LET w == WriteVideoFrame(v_next_pts, fail)
       IN  /\ v_next_pts' = w.pts
           /\ flv_error_code' = w.ret
           /\ encode_video' = IF w.ret < 0 THEN encode_video ELSE (w.ret = 0)
           /\ flv_pc' = IF w.ret < 0 THEN "trailer" ELSE "loop"
           /\ writer_failed' = (writer_failed \/ w.ret < 0)
    /\ last_writer' = "video"
    /\ writer_calls' = writer_calls + 1
    /\ UNCHANGED <<otherThanFlv, flv_pcm_frames, a_next_pts, encode_audio,
                   pcm_frames_read, flv_exit_status>>

\* lines 330-335, 340-345: an iteration that takes the audio branch
MuxAudio(fail) ==
    /\ flv_pc = "loop"
    /\ encode_audio \/ encode_video
    /\ ~VideoTurn
    /\ LET w == WriteAudioFrame(a_next_pts, flv_pcm_frames - pcm_frames_read, fail)
       IN  /\ a_next_pts' = w.pts
           /\ pcm_frames_read' = pcm_frames_read + w.reads
           /\ flv_error_code' = w.ret
           /\ encode_audio' = IF w.ret < 0 THEN encode_audio ELSE (w.ret = 0)
           /\ flv_pc' = IF w.ret < 0 THEN "trailer" ELSE "loop"
           /\ writer_failed' = (writer_failed \/ w.ret < 0)
    /\ last_writer' = "audio"
    /\ writer_calls' = writer_calls + 1
    /\ UNCHANGED <<otherThanFlv, flv_pcm_frames, v_next_pts, encode_video,
                   flv_exit_status>>

\* line 330: both streams are finished
MuxDone ==
    /\ flv_pc = "loop"
    /\ ~(encode_audio \/ encode_video)
    /\ flv_pc' = "trailer"
    /\ UNCHANGED <<otherThanFlv, flv_pcm_frames, v_next_pts, a_next_pts,
                   encode_video, encode_audio, flv_error_code, pcm_frames_read,
                   flvHistory, flv_exit_status>>

\* lines 348-358: error_code is assigned the result of av_write_trailer,
\* whatever it held
FlvTrailer(ok) ==
    /\ flv_pc = "trailer"
    /\ flv_error_code' = IF ok THEN 0 ELSE LibError
    /\ flv_pc' = "exit"
    /\ UNCHANGED <<otherThanFlv, flv_pcm_frames, v_next_pts, a_next_pts,
                   encode_video, encode_audio, pcm_frames_read, flvHistory,
                   flv_exit_status>>

\* lines 515-537 and 542: MultiplexFLV returns error_code, main returns it, and
\* the exit status of the process is its low 8 bits
FlvExit ==
    /\ flv_pc = "exit"
    /\ flv_exit_status' = flv_error_code % 256
    /\ flv_pc' = "exited"
    /\ UNCHANGED <<otherThanFlv, flv_pcm_frames, v_next_pts, a_next_pts,
                   encode_video, encode_audio, flv_error_code, pcm_frames_read,
                   flvHistory>>

FlvNext ==
    \/ \E r \in {0, 1, 0 - 1, LibError} : FlvSetup(r)
    \/ \E ok \in BOOLEAN : FlvAvioOpen(ok)
    \/ \E ok \in BOOLEAN : FlvWriteHeader(ok)
    \/ \E fail \in BOOLEAN : MuxVideo(fail)
    \/ \E fail \in BOOLEAN : MuxAudio(fail)
    \/ MuxDone
    \/ \E ok \in BOOLEAN : FlvTrailer(ok)
    \/ FlvExit

FlvSpec == FlvInit /\ [][FlvNext]_vars

\* main is one thread and runs on
FlvLiveSpec == FlvSpec /\ WF_vars(FlvNext)

\* ------------------------------------------------------------ properties
\* The consumer is between its test of the ready flag (line 36) and its update
\* of pos (line 52): it reads size, pos and bytes of the active chunk.
ConsumerReads(i) ==
    /\ consumer_pc \in {"calc", "mix", "lock", "update"}
    /\ active_buffer_index = i

\* The producer is between taking the chunk (line 114/120) and publishing it
\* (line 119/125): it writes bytes, size and pos of chunk fill_idx.
ProducerWrites(i) ==
    /\ producer_pc \in {"fill_copy", "fill_ready"}
    /\ fill_idx = i

\* C1: no write/read collision.  While the producer writes a chunk, that
\* chunk's ready flag is false and the consumer is not reading from it.
NoWriteReadCollision ==
    \A i \in {0, 1} : ProducerWrites(i) => (~buffer_ready[i] /\ ~ConsumerReads(i))

\* C1 witness: the producer writes one chunk while the consumer reads the other.
ConcurrentFillAndDrain ==
    /\ producer_pc = "fill_copy"
    /\ consumer_pc = "mix"
    /\ fill_idx # active_buffer_index
    /\ copy_size > 0

NoLostWakeup == ~(producer_pc = "waiting" /\ WaitPredicate(buffer_ready))

\* C4 (as claimed): end-to-end delivery.  When playback has ended, the bytes
\* passed to SDL_MixAudio, in order, are the whole input file.
EndToEndDelivery ==
    (producer_pc = "done" /\ exit_code = 0) => mix_src = FileBytes(0, file_size)

\* C5: silence on underrun.  A callback whose test finds both chunks not ready
\* returns without touching any chunk, flag or the active index and without
\* mixing, and puts additional_amount zero bytes into the stream.
SilenceOnUnderrun ==
    [][(/\ consumer_pc = "check"
        /\ consumer_pc' # "check"
        /\ ~buffer_ready[0]
        /\ ~buffer_ready[1])
       => (/\ consumer_pc' = "idle"
           /\ UNCHANGED chunkState
           /\ UNCHANGED mix_src
           /\ last_put' = Zeros(additional_amount))]_vars

\* C5 witness: after some data was played, an underrun callback for a whole
\* buffer has put silence while no chunk was ready.
UnderrunSilencePut ==
    /\ consumer_pc = "idle"
    /\ stream = "playing"
    /\ ~buffer_ready[0]
    /\ ~buffer_ready[1]
    /\ mix_src # <<>>
    /\ last_put = Zeros(kPcmBufferSize)

\* The chunks of the input, in the order they are read, and where each ends.
NumChunks == (file_size + kPcmBufferSize - 1) \div kPcmBufferSize

ChunkEnd(k) == Min(k * kPcmBufferSize, file_size)

\* The number of chunks all of whose bytes have been passed to the mixer.
ChunksDrained == Cardinality({k \in 1..NumChunks : ChunkEnd(k) <= RLen(mix_src)})

\* C6: alternation.  Outside the window between the mix of a callback and its
\* update, the active index is the number of completely drained chunks modulo
\* 2: 0 at the start, 1 after one fill-and-drain cycle, 0 after two.
ActiveIndexAlternation ==
    consumer_pc \notin {"lock", "update"} => active_buffer_index = ChunksDrained % 2

\* C6 witness: two chunks were drained and chunk 0 is active again.
TwoCyclesDone ==
    /\ ChunksDrained = 2
    /\ drained_chunks = 2
    /\ consumer_pc = "idle"
    /\ active_buffer_index = 0

\* C7: fill precondition.  A step of the running player changes the data or
\* the size of a chunk, or resets its pos, only if the chunk's ready flag is
\* false before the step (the release of the storage when main returns is not
\* a fill).
FillOnlyWhenNotReady ==
    [][\A i \in {0, 1} :
         (buffer_ready[i] /\ producer_pc' # "exited") =>
           /\ buffers'[i].data = buffers[i].data
           /\ buffers'[i].size = buffers[i].size
           /\ buffers'[i].pos >= buffers[i].pos]_vars

\* C7 witness: a chunk that was drained before has been filled again.
ChunkRefilled ==
    /\ producer_pc = "fill_ready"
    /\ buffers[fill_idx].data = FileBytes(2 * kPcmBufferSize, kPcmBufferSize)
    /\ buffer_ready[1 - fill_idx]

\* C8: non-blocking consumer.  The callback never holds cv_mutex, and the
\* producer holds buffer_change_mutex only inside lines 112-127, never while it
\* evaluates the wait predicate or is blocked in cv.wait.
NonBlockingConsumer ==
    /\ cv_mutex # "consumer"
    /\ buffer_change_mutex = "producer"
          => producer_pc \in {"fill_copy", "fill_ready", "fill_unlock"}
    /\ producer_pc \in {"wait_pred", "wait_block", "waiting", "woken"}
          => buffer_change_mutex # "producer"

\* C8 witness: the callback holds buffer_change_mutex while the producer is
\* blocked in cv.wait.
ConsumerLocksWhileProducerWaits ==
    /\ producer_pc = "waiting"
    /\ consumer_pc = "update"
    /\ buffer_change_mutex = "consumer"

\* C9: producer termination.  Once in its loop, the producer reaches the end of
\* the input and returns.
ProducerTerminates == (producer_pc = "read") ~> (producer_pc = "done")

\* C9 witness: the producer has returned after an input of more than two chunks,
\* for which it had to wait for a free chunk.
ProducerReturnedAfterLongInput ==
    /\ producer_pc = "done"
    /\ exit_code = 0
    /\ total_bytes_read > 2 * kPcmBufferSize

\* C10 (as claimed): at teardown nothing is left to play.  When the stream has
\* been destroyed no chunk is still ready.
DrainedBeforeTeardown ==
    stream = "destroyed" => (~buffer_ready[0] /\ ~buffer_ready[1])


\* C11: short read.  A read returns what is left of the file, at most a chunk;
\* the loop ends on that read if and only if it returned 0 bytes, and a chunk
\* that becomes ready holds the bytes of the read, its size their number (>= 1).
ShortReadIsForwarded ==
    [][/\ (producer_pc = "read" /\ producer_pc' # "read")
            => /\ bytes_read' = Min(kPcmBufferSize, file_size - total_bytes_read)
               /\ (producer_pc' = "destroy") <=> (bytes_read' = 0)
               /\ (producer_pc' = "cv_lock") <=> (bytes_read' > 0)
       /\ \A i \in {0, 1} :
            (~buffer_ready[i] /\ buffer_ready'[i])
            => /\ bytes_read > 0
               /\ buffers[i].size = bytes_read
               /\ RTake(buffers[i].data, bytes_read)
                    = FileBytes(total_bytes_read - bytes_read, bytes_read)]_vars

\* C11 witness: the short last read of a file is in a ready chunk of its size.
ShortChunkReady ==
    \E i \in {0, 1} :
        /\ buffer_ready[i]
        /\ buffers[i].size = ShortTail
        /\ buffers[i].size < kPcmBufferSize
        /\ total_bytes_read = file_size
        /\ producer_pc = "fill_unlock"


\* The producer has not yet resumed the device (it is before line 91).
BeforeResume ==
    producer_pc \in {"sdl_init", "open_device", "open_file", "alloc", "resume"}

\* C12: fatal open failures.  A failed open of the device or of the file ends
\* PlayPcmAudio at once with exit status 1, the stream null (device) or
\* destroyed (file); the device was not resumed before and, the status being 1,
\* nothing is retried: the stream stays as it is, no byte is read, no chunk is
\* ready and no callback runs.
FatalOpenFailure ==
    /\ [][/\ (producer_pc = "open_device" /\ producer_pc' \notin {"open_device", "open_file"})
               => (producer_pc' = "done" /\ exit_code' = 1 /\ stream' = "null")
          /\ (producer_pc = "open_file" /\ producer_pc' \notin {"open_file", "alloc"})
               => (producer_pc' = "done" /\ exit_code' = 1 /\ stream' = "destroyed")
          /\ exit_code = 1
               => (stream' = stream /\ exit_code' = 1
                   /\ producer_pc' \in {"done", "exited"})]_vars
    /\ [](BeforeResume => stream \in {"null", "paused"})
    /\ [](exit_code = 1
            => /\ producer_pc \in {"done", "exited"}
               /\ stream \in {"null", "destroyed"}
               /\ total_bytes_read = 0
               /\ ~buffer_ready[0] /\ ~buffer_ready[1]
               /\ consumer_pc = "idle"
               /\ mix_src = <<>>)

\* C12 witness: the file could not be opened; the opened stream is destroyed
\* and main has returned 1.
FileOpenFailed ==
    /\ producer_pc = "exited"
    /\ exit_code = 1
    /\ stream = "destroyed"


\* C13 (as claimed): in-bounds copies.  The read and the producer's memcpy
\* move at most kPcmBufferSize bytes, the consumer mixes bytes of [pos, size)
\* only, and the bytes it zero-fills in, mixes into and puts from mixed_buffer
\* are at most kPcmBufferSize, the size of that buffer.
InBoundsCopies ==
    /\ bytes_read <= kPcmBufferSize
    /\ consumer_pc = "mix"
         => LET buffer == buffers[active_buffer_index]
            IN  /\ 0 <= copy_size
                /\ buffer.pos + copy_size <= buffer.size
                /\ buffer.size <= RLen(buffer.data)
    /\ copy_size <= kPcmBufferSize
    /\ additional_amount <= kPcmBufferSize
    /\ RLen(mixed_buffer) <= kPcmBufferSize


\* C14 (as claimed): cooperative cancellation.  Once the stop flag is set the
\* producer stops reading: its next pass through the top of the loop leaves the
\* loop without taking any more bytes of the input.
CooperativeCancellation ==
    [][(stop_requested /\ producer_pc = "read" /\ producer_pc' # "read")
         => /\ producer_pc' = "destroy"
            /\ total_bytes_read' = total_bytes_read]_vars

\* C14 (amended): the producer has no cancellation.  It leaves its loop only by
\* a read of zero bytes with the whole input read, and while input is left
\* every pass reads on, whether or not a stop has been asked for: its exit
\* depends on end-of-input alone.
ExitOnEndOfInputAlone ==
    [][/\ (producer_pc # "destroy" /\ producer_pc' = "destroy")
            => /\ producer_pc = "read"
               /\ bytes_read' = 0
               /\ total_bytes_read' = file_size
       /\ (producer_pc = "read" /\ producer_pc' # "read"
             /\ total_bytes_read < file_size)
            => /\ producer_pc' = "cv_lock"
               /\ total_bytes_read' > total_bytes_read
       /\ (producer_pc \in {"done", "exited"} /\ exit_code = 0)
            => total_bytes_read = file_size]_vars

\* C14 witness: a stop has been asked for in mid-file and the producer is at
\* the top of its loop with input left to read
ReadOnAfterStopRequest ==
    /\ stop_requested
    /\ producer_pc = "read"
    /\ 0 < total_bytes_read
    /\ total_bytes_read < file_size


\* chunk i has its kPcmBufferSize bytes of storage (lines 87-88)
Allocated(i) == RLen(buffers[i].data) = kPcmBufferSize

\* C15: chunk lifecycle.  Both chunks are allocated in one step, from nothing,
\* while the stream is still paused; whenever the callback can run or is
\* running, and all through the producer loop, both are allocated; a chunk's
\* storage is released only after the stream is destroyed, with no callback
\* in progress, and is never allocated again.
ChunkLifecycle ==
    /\ []((stream = "playing" \/ consumer_pc # "idle")
            => Allocated(0) /\ Allocated(1))
    /\ [](~BeforeResume /\ producer_pc \notin {"done", "exited"}
            => Allocated(0) /\ Allocated(1))
    /\ [][\A i \in {0, 1} :
            /\ RLen(buffers'[i].data) # RLen(buffers[i].data)
                 => \/ /\ producer_pc = "alloc"
                       /\ stream = "paused"
                       /\ RLen(buffers[0].data) = 0 /\ RLen(buffers[1].data) = 0
                       /\ Allocated(0)' /\ Allocated(1)'
                    \/ /\ producer_pc = "done"
                       /\ producer_pc' = "exited"
                       /\ stream \in {"null", "destroyed"}
                       /\ consumer_pc = "idle"
                       /\ RLen(buffers'[i].data) = 0
            /\ producer_pc = "exited" => ~Allocated(i)']_vars

\* C15 witness: a run that allocated, played and released the chunks
ChunksReleasedAfterPlayback ==
    /\ producer_pc = "exited"
    /\ stream = "destroyed"
    /\ drained_chunks > 0
    /\ ~Allocated(0) /\ ~Allocated(1)


\* C16: fill selection rule.  The step that writes a chunk is taken with
\* buffer_change_mutex held by the producer, writes one chunk only, and that
\* chunk is the active one if the active one is not ready at that moment;
\* it is the other one only if the active one is ready and the other is not.
FillSelectionRule ==
    [][(producer_pc = "fill_copy" /\ producer_pc' = "fill_ready")
         => LET idx == active_buffer_index
            IN  /\ buffer_change_mutex = "producer"
                /\ fill_idx \in {0, 1}
                /\ ~buffer_ready[idx] => fill_idx = idx
                /\ buffer_ready[idx]
                     => (fill_idx = 1 - idx /\ ~buffer_ready[1 - idx])
                /\ buffers'[fill_idx] # buffers[fill_idx]
                /\ buffers'[1 - fill_idx] = buffers[1 - fill_idx]]_vars

\* C16 witness: the producer has written the other chunk, the active one being
\* ready
OtherChunkWritten ==
    /\ producer_pc = "fill_ready"
    /\ fill_idx = 1 - active_buffer_index
    /\ buffer_ready[active_buffer_index]
    /\ buffers[fill_idx].size = bytes_read


\* C17: drain step.  With the active chunk ready, the callback mixes exactly
\* min(additional_amount, size - pos) bytes of the chunk, from pos on; its
\* update step, taken with buffer_change_mutex held by the consumer and
\* releasing it, advances pos by exactly that amount and touches nothing else
\* of the chunks; if pos >= size afterwards it clears the chunk's flag, flips
\* the active index and wakes a waiting producer, and otherwise it does none
\* of the three.
DrainStep ==
    [][LET a == active_buffer_index
           b == buffers[a]
           k == Min(additional_amount, b.size - b.pos)
       IN  /\ (consumer_pc = "mix" /\ consumer_pc' = "lock")
                => /\ buffer_ready[a]
                   /\ copy_size = k
                   /\ mix_src' = RCat(mix_src, RSub(b.data, b.pos, k))
                   /\ chunkState' = chunkState
           /\ (consumer_pc = "update" /\ consumer_pc' = "put")
                => /\ buffer_change_mutex = "consumer"
                   /\ buffer_change_mutex' = "none"
                   /\ buffers'[a] = [b EXCEPT !.pos = b.pos + k]
                   /\ buffers'[1 - a] = buffers[1 - a]
                   /\ buffer_ready'[1 - a] = buffer_ready[1 - a]
                   /\ IF b.pos + k >= b.size
                      THEN /\ ~buffer_ready'[a]
                           /\ active_buffer_index' = 1 - a
                           /\ producer_pc = "waiting" => producer_pc' = "woken"
                      ELSE /\ buffer_ready'[a] = buffer_ready[a]
                           /\ active_buffer_index' = a
                           /\ producer_pc' = producer_pc]_vars

\* C17 witness: a callback that asked for more than was left of the chunk has
\* taken what was left and handed the chunk back
RestOfChunkDrained ==
    /\ consumer_pc = "put"
    /\ 0 < copy_size
    /\ copy_size < additional_amount
    /\ LET d == 1 - active_buffer_index
       IN  /\ ~buffer_ready[d]
           /\ buffers[d].pos = buffers[d].size
           /\ buffers[d].pos > copy_size


\* C18: single writer of the active index.  The index is 0 or 1; it changes
\* only in the consumer's update step, taken with buffer_change_mutex held by
\* the consumer, and then to the other slot; a step in which the consumer
\* does not move, every step of the producer among them, leaves it as it is.
SingleWriterOfActiveIndex ==
    /\ [](active_buffer_index \in {0, 1})
    /\ [][/\ active_buffer_index' # active_buffer_index
               => /\ consumer_pc = "update"
                  /\ consumer_pc' = "put"
                  /\ buffer_change_mutex = "consumer"
                  /\ active_buffer_index' = 1 - active_buffer_index
          /\ consumer_pc' = consumer_pc
               => active_buffer_index' = active_buffer_index]_vars

\* C18 witness: the index has been flipped to 1 and the producer has filled
\* and published that chunk since
ProducerFilledUnderFlippedIndex ==
    /\ active_buffer_index = 1
    /\ producer_pc = "fill_unlock"
    /\ fill_idx = 1
    /\ buffer_ready[1]


\* C19: ready-flag ownership.  A flag goes from false to true only in the
\* producer's publishing step, for the chunk it has just written, whose bytes
\* are the bytes last read, whose size is their count and whose pos is 0, and
\* the consumer does not move in that step; a flag goes from true to false only
\* in the consumer's update step, for the active chunk, and only in the step
\* that takes its pos from below size to size.
ReadyFlagOwnership ==
    [][\A i \in {0, 1} :
         /\ (~buffer_ready[i] /\ buffer_ready'[i])
              => /\ producer_pc = "fill_ready"
                 /\ producer_pc' = "fill_unlock"
                 /\ consumer_pc' = consumer_pc
                 /\ fill_idx = i
                 /\ buffers' = buffers
                 /\ buffers[i].pos = 0
                 /\ buffers[i].size = bytes_read
                 /\ RTake(buffers[i].data, buffers[i].size)
                      = FileBytes(total_bytes_read - bytes_read, bytes_read)
         /\ (buffer_ready[i] /\ ~buffer_ready'[i])
              => /\ consumer_pc = "update"
                 /\ consumer_pc' = "put"
                 /\ i = active_buffer_index
                 /\ buffers[i].pos < buffers[i].size
                 /\ buffers'[i].pos = buffers'[i].size
                 /\ buffers'[i].size = buffers[i].size]_vars

\* C19 witness: one chunk's flag has been cleared at the end of its drain while
\* the other chunk, refilled since its own drain, has its flag set
FlagClearedAndFlagSet ==
    /\ consumer_pc = "put"
    /\ drained_chunks = 2
    /\ \E i \in {0, 1} :
         /\ ~buffer_ready[i]
         /\ buffers[i].size > 0
         /\ buffers[i].pos = buffers[i].size
         /\ buffer_ready[1 - i]
         /\ buffers[1 - i].pos = 0


\* C20 (as claimed): minimal critical sections.  The producer is never about
\* to copy the bytes it read into a chunk, and the consumer never about to mix
\* bytes out of a chunk, while holding buffer_change_mutex or cv_mutex.
MinimalCriticalSections ==
    /\ producer_pc = "fill_copy"
         => (buffer_change_mutex # "producer" /\ cv_mutex # "producer")
    /\ consumer_pc = "mix"
         => (buffer_change_mutex # "consumer" /\ cv_mutex # "consumer")


\* C21 (as claimed): both chunks full.  A callback for n > 0 bytes whose test
\* finds both chunks ready returns at once and puts n zero bytes.
SilenceWhenBothReady ==
    [][(/\ consumer_pc = "check"
        /\ consumer_pc' # "check"
        /\ additional_amount > 0
        /\ buffer_ready[0]
        /\ buffer_ready[1])
       => (/\ consumer_pc' = "idle"
           /\ last_put' = Zeros(additional_amount))]_vars

\* C21 (amended): a callback whose test finds both chunks ready goes on to mix
\* from the active chunk; a callback returns from its test, with silence, only
\* if the active chunk is not ready; and what a callback that passed the test
\* puts for a request of n > 0 bytes is never n zero bytes.  No step of the
\* callback sets an exit code.
DataWhenBothReady ==
    [][/\ (/\ consumer_pc = "check"
           /\ consumer_pc' # "check"
           /\ buffer_ready[0]
           /\ buffer_ready[1])
          => (/\ consumer_pc' = "calc"
              /\ last_put' = <<>>)
       /\ (consumer_pc = "check" /\ consumer_pc' = "idle")
          => ~buffer_ready[active_buffer_index]
       /\ (consumer_pc = "put" /\ consumer_pc' = "idle" /\ additional_amount > 0)
          => (/\ copy_size > 0
              /\ RTake(last_put', copy_size) # Zeros(copy_size))
       /\ consumer_pc' # consumer_pc => exit_code' = exit_code]_vars

\* C21 witness: both chunks are ready, the producer is blocked in its wait, and
\* the callback has mixed bytes of the active chunk and is about to put them
MixedWhileBothReady ==
    /\ consumer_pc = "put"
    /\ producer_pc = "waiting"
    /\ buffer_ready[0]
    /\ buffer_ready[1]
    /\ copy_size > 0


\* C22: wait predicate and no dropped read.  The producer leaves the wait only
\* with a chunk not ready; one is still not ready when it comes to take
\* buffer_change_mutex; so it always has a chunk to fill, and when it unlocks
\* the bytes it read are in that chunk, with their count as its size, and not
\* in the other chunk.
NoDroppedRead ==
    /\ [][(producer_pc = "wait_pred" /\ producer_pc' = "fill_lock")
            => (~buffer_ready[0] \/ ~buffer_ready[1])]_vars
    /\ [](producer_pc = "fill_lock" => (~buffer_ready[0] \/ ~buffer_ready[1]))
    /\ [](producer_pc \in {"fill_copy", "fill_ready", "fill_unlock"}
            => /\ bytes_read > 0
               /\ fill_idx \in {0, 1})
    /\ [](producer_pc = "fill_unlock"
            => \E i \in {0, 1} :
                 LET read == FileBytes(total_bytes_read - bytes_read, bytes_read)
                 IN  /\ fill_idx = i
                     /\ buffers[i].size = bytes_read
                     /\ RTake(buffers[i].data, bytes_read) = read
                     /\ RTake(buffers[1 - i].data, bytes_read) # read)

\* C22 witness: the third chunk of the input, read while both chunks were in
\* use, has been stored after one of them was drained
ThirdChunkStored ==
    /\ producer_pc = "fill_unlock"
    /\ fill_idx \in {0, 1}
    /\ drained_chunks >= 1
    /\ total_bytes_read > 2 * kPcmBufferSize


\* C23: FIFO invariant.  With buffer_change_mutex free, a ready non-active
\* chunk means a ready active chunk; a callback that returns silence from its
\* test does so with no chunk ready; and the bytes mixed so far are the start
\* of the input, in the order of the input.
FifoInvariant ==
    /\ [](buffer_change_mutex = "none"
            => (buffer_ready[1 - active_buffer_index]
                  => buffer_ready[active_buffer_index]))
    /\ [][(consumer_pc = "check" /\ consumer_pc' = "idle")
            => (~buffer_ready[0] /\ ~buffer_ready[1])]_vars
    /\ [](mix_src = FileBytes(0, RLen(mix_src)))

\* C23 witness: the second chunk is active and partly drained while the third,
\* filled into the other slot, waits for its turn
FilledChunkWaitsItsTurn ==
    /\ buffer_change_mutex = "none"
    /\ active_buffer_index = 1
    /\ buffer_ready[0]
    /\ buffer_ready[1]
    /\ buffers[1].pos > 0
    /\ buffers[0].pos = 0
    /\ RLen(mix_src) > kPcmBufferSize


\* C24: one chunk per callback.  The bytes a callback mixes are taken in its
\* one mix step, from the active chunk; what it puts, at either return, has
\* the length asked for: after the test failed all zero bytes, after a mix the
\* copy_size bytes mixed followed by zero bytes up to the length asked for,
\* whatever the state of the other chunk.
OneChunkPerCallback ==
    [][/\ mix_src' # mix_src
            => /\ consumer_pc = "mix"
               /\ consumer_pc' = "lock"
               /\ LET b == buffers[active_buffer_index]
                  IN  mix_src' = RCat(mix_src, RSub(b.data, b.pos, copy_size))
       /\ (consumer_pc = "check" /\ consumer_pc' = "idle")
            => last_put' = Zeros(additional_amount)
       /\ (consumer_pc = "put" /\ consumer_pc' = "idle")
            => /\ RLen(last_put') = additional_amount
               /\ copy_size <= additional_amount
               /\ last_put' = RCat(RDrop(mix_src, RLen(mix_src) - copy_size),
                                   Zeros(additional_amount - copy_size))]_vars

\* C24 witness: a callback has put the rest of one chunk followed by silence,
\* while the other chunk was ready and the producer, woken by this callback,
\* has not yet run
RestPaddedWithSilence ==
    /\ consumer_pc = "idle"
    /\ producer_pc = "woken"
    /\ buffer_ready[active_buffer_index]
    /\ buffers[active_buffer_index].pos = 0
    /\ Len(last_put) = 2
    /\ last_put[1].v # ZeroByte
    /\ last_put[2].v = ZeroByte
    /\ RLen(last_put) = kPcmBufferSize


\* C25: ready implies unread data.  With buffer_change_mutex free, a chunk
\* whose flag is true has at least one byte, and its pos is inside it.
ReadyImpliesUnreadData ==
    buffer_change_mutex = "none"
      => \A i \in {0, 1} :
           buffer_ready[i]
             => /\ buffers[i].size >= 1
                /\ 0 <= buffers[i].pos
                /\ buffers[i].pos < buffers[i].size

\* C25 witness: the last, short chunk is ready and untouched behind a ready
\* chunk that is partly drained
ShortChunkBehindPartlyDrained ==
    /\ buffer_change_mutex = "none"
    /\ buffer_ready[0]
    /\ buffer_ready[1]
    /\ buffers[active_buffer_index].pos > 0
    /\ buffers[1 - active_buffer_index].size = ShortTail
    /\ buffers[1 - active_buffer_index].pos = 0


\* C26: race-free check-then-act in the consumer.  The consumer tests the flag
\* and reads size and pos without buffer_change_mutex and holds it for the
\* update only; from its test to its update no step of another thread changes
\* the active index or the flag, size, pos or bytes of the active chunk; so at
\* the update the flag is still true and copy_size is still
\* min(additional_amount, size - pos).
CheckThenActIsRaceFree ==
    /\ [](consumer_pc \in {"check", "calc", "mix", "lock"}
            => buffer_change_mutex # "consumer")
    /\ [](consumer_pc = "update" => buffer_change_mutex = "consumer")
    /\ [][(ConsumerReads(active_buffer_index) /\ consumer_pc' = consumer_pc)
            => /\ active_buffer_index' = active_buffer_index
               /\ buffer_ready'[active_buffer_index]
                    = buffer_ready[active_buffer_index]
               /\ buffers'[active_buffer_index] = buffers[active_buffer_index]]_vars
    /\ [](consumer_pc \in {"mix", "lock", "update"}
            => LET b == buffers[active_buffer_index]
               IN  /\ buffer_ready[active_buffer_index]
                   /\ copy_size = Min(additional_amount, b.size - b.pos)
                   /\ b.pos + copy_size <= b.size)

\* C26 witness: between the consumer's test and its update the producer has
\* taken the mutex and filled the other chunk; the consumer waits for the lock
ProducerFillsBetweenCheckAndUpdate ==
    /\ consumer_pc = "lock"
    /\ producer_pc = "fill_ready"
    /\ buffer_change_mutex = "producer"
    /\ fill_idx = 1 - active_buffer_index


\* C27: shutdown handshake of the YUV player.  The timer thread pushes the quit
\* event once, after it has left its loop with thread_quit set, and ends; the
\* event loop is left only with that event received, so only with the timer
\* thread past its last frame event; main returns only after the join; and
\* with both threads scheduled fairly, once thread_quit is set the timer thread
\* ends, the event loop ends and main returns 0.
ShutdownHandshake ==
    /\ [](quit_events_pushed <= 1)
    /\ [][/\ quit_events_pushed' # quit_events_pushed
               => /\ thread_quit
                  /\ timer_pc = "push_quit"
                  /\ timer_pc' = "finished"
          /\ timer_pc = "finished"
               => /\ timer_pc' = "finished"
                  /\ Len(event_queue') <= Len(event_queue)
                       \/ event_queue'[Len(event_queue')] \in UserEventTypes]_vars
    /\ [](poll_quit
            => /\ thread_quit
               /\ quit_events_pushed = 1
               /\ timer_pc = "finished")
    /\ []((yuv_pc = "join" \/ yuv_exit_code = 0) => poll_quit)
    /\ [](thread_quit => <>(/\ yuv_pc = "returned"
                            /\ yuv_exit_code = 0
                            /\ timer_pc = "finished"))

\* C27 witness: the file was played to its end, the end of file set
\* thread_quit, and the player has shut down
PlayedToTheEndAndShutDown ==
    /\ yuv_pc = "returned"
    /\ yuv_exit_code = 0
    /\ yuv_frames = MaxFrames
    /\ frames_shown = MaxFrames
    /\ user_events = 0
    /\ quit_events_pushed = 1


\* C28: pacing rule of the FLV muxer.  An iteration of the mux loop calls the
\* video writer exactly if the video stream is still active and its next
\* timestamp, in seconds, is not after the audio stream's (a tie goes to
\* video); every other iteration calls the audio writer; a writer moves its
\* own stream's timestamp only; and while both streams are active the video
\* timestamp is at most one video frame ahead of the audio timestamp and the
\* audio timestamp at most one audio frame ahead of the video timestamp.
PacingRule ==
    /\ [][writer_calls' # writer_calls
            => LET video_due ==
                     /\ encode_video
                     /\ v_next_pts * kAudioSampleRate <= a_next_pts * kVideoFrameRate
               IN  /\ flv_pc = "loop"
                   /\ last_writer' = IF video_due THEN "video" ELSE "audio"
                   /\ video_due => a_next_pts' = a_next_pts
                   /\ ~video_due => v_next_pts' = v_next_pts]_vars
    /\ []((flv_pc = "loop" /\ encode_video /\ encode_audio)
            => LET v == v_next_pts * kAudioSampleRate
                   a == a_next_pts * kVideoFrameRate
               IN  /\ v - a <= kAudioSampleRate
                   /\ a - v <= AacFrameSize * kVideoFrameRate)

\* C28 witness: with both streams at 0.32 s (video frame 8, audio sample
\* 15360) the tie went to video
TieWentToVideo ==
    /\ flv_pc = "loop"
    /\ last_writer = "video"
    /\ v_next_pts = 9
    /\ a_next_pts = 15 * AacFrameSize
    /\ 8 * kAudioSampleRate = a_next_pts * kVideoFrameRate


\* C29: termination of the mux loop.  Every iteration calls the writer of a
\* stream that is still active, and either advances that stream's next
\* timestamp, or marks the stream finished with its timestamp at or past
\* kDurationSeconds, or leaves the loop on a failure; a run without a failure
\* leaves the loop with both streams finished; and main always comes to its
\* end.
LoopTermination ==
    /\ [][writer_calls' # writer_calls
            => /\ last_writer' = "video" => encode_video
               /\ last_writer' = "audio" => encode_audio
               /\ \/ /\ flv_pc' = "loop"
                     /\ v_next_pts' + a_next_pts' > v_next_pts + a_next_pts
                     /\ encode_video' = encode_video
                     /\ encode_audio' = encode_audio
                  \/ /\ flv_pc' = "loop"
                     /\ encode_video /\ ~encode_video'
                     /\ encode_audio' = encode_audio
                     /\ v_next_pts' = v_next_pts
                     /\ v_next_pts >= kDurationSeconds * kVideoFrameRate
                  \/ /\ flv_pc' = "loop"
                     /\ encode_audio /\ ~encode_audio'
                     /\ encode_video' = encode_video
                     /\ a_next_pts' = a_next_pts
                     /\ a_next_pts >= kDurationSeconds * kAudioSampleRate
                  \/ /\ flv_pc' = "trailer"
                     /\ writer_failed']_vars
    /\ []((flv_pc \in {"trailer", "exit", "exited"} /\ writer_calls > 0
             /\ ~writer_failed)
            => (~encode_video /\ ~encode_audio))
    /\ <>(flv_pc = "exited")

\* C29 witness: a run in which nothing failed has written kDurationSeconds of
\* both streams, sent each its drain frame and ended
BothStreamsWrittenAndDrained ==
    /\ flv_pc = "exited"
    /\ ~writer_failed
    /\ ~encode_video
    /\ ~encode_audio
    /\ v_next_pts = kDurationSeconds * kVideoFrameRate
    /\ a_next_pts = AudioFramesNeeded * AacFrameSize
    /\ writer_calls = v_next_pts + AudioFramesNeeded + 2


\* C30 (as claimed): error propagation of the FLV muxer.  When a writer has
\* reported a failure during the mux loop, MultiplexFLV returns a non-zero
\* code and the exit status of the process is non-zero.
ErrorPropagation ==
    (flv_pc = "exited" /\ writer_failed)
      => (flv_error_code # 0 /\ flv_exit_status # 0)

====
